---- MODULE Spec2Model ----
(***************************************************************************)
(* Model of the monitoring loop of src/src/app.py (monitor_worker) and of  *)
(* the downtime / recovery / burn-rate alert life cycle it drives          *)
(* (src/src/alert_manager.py, sync_burn_rate_alert, compute_slo_metrics).  *)
(*                                                                         *)
(* Time is the UTC clock in whole seconds.  The program stores timestamps  *)
(* as ISO-8601 strings and compares them as strings; for timestamps of one *)
(* format that order is the order of the instants, so a timestamp is       *)
(* modelled by its number of seconds.                                      *)
(*                                                                         *)
(* The alert and incident queries of AlertManager and of                  *)
(* sync_burn_rate_alert are keyed by (api_id, user_id) where user_id is    *)
(* the owner of the endpoint; an endpoint has one owner, so those queries  *)
(* are keyed by api_id here.  AIAlertManager writes and reads its records  *)
(* without a user_id; the alert-status query filters by the user_id of     *)
(* the logged-in user.                                                     *)
(***************************************************************************)
EXTENDS Integers, Sequences, FiniteSets, TLC

VARIABLES
    clock,            \* datetime.utcnow(), in seconds
    apis,             \* the list `apis` of the running tick still to be visited
    network_is_up,    \* the tick's gate verdict (app.py:1792)
    monitored_apis,   \* db.monitored_apis : endpoint id -> document
    monitoring_logs,  \* db.monitoring_logs: endpoint id -> documents, oldest first
    alert_history,    \* db.alert_history  : documents in insertion order
    alert_incidents,  \* db.alert_incidents: documents in insertion order
    github_settings,  \* TRUE iff db.github_settings holds a complete document for the owner
    failure_threshold, \* AlertManager.failure_threshold
    last_training_time, \* AIAlertManager.last_training_time: endpoint id -> time, -1 when absent
    args,             \* the arguments of a direct call of one of the program's functions
    result,           \* what the direct calls returned, in order
    network_check,    \* the tick's gate result (app.py:1789)
    worker            \* train_model_worker: <<>>, or <<id>> between its lookup of an open alert and its insert

vars == <<clock, apis, network_is_up, monitored_apis, monitoring_logs,
          alert_history, alert_incidents, github_settings, failure_threshold,
          last_training_time, args, result, network_check, worker>>

----------------------------------------------------------------------------
(* Bounds of the model *)

\* total number of probe records the store may hold under Spec
MaxLogs == 8
\* the same under SpecPair
MaxPairLogs == 9
\* the clock value (seconds) up to which ticks are started
MaxClock == 4200
\* total number of probe records under SpecAi, 49 of them there from the start
MaxAiLogs == 52
\* probe records of a synthetic history: older than one hour, and of the last hour
MaxOldChecks == 600
MaxNewChecks == 199
\* probe records in the specification of the scheduling
MaxFreqLogs == 4
\* probe records in the specification of the gate in the loop
MaxNetLogs == 4
\* probe records of the two endpoints together under SpecTwin
MaxTwinLogs == 6
\* total number of probe records under SpecWorker, 49 of them there from the start
MaxWorkerLogs == 51
\* probe records written under SpecDelete
MaxDeleteLogs == 4
\* the largest ALERT_FAILURE_THRESHOLD the direct calls of should_create_alert are run with
MaxThreshold == 10

----------------------------------------------------------------------------
(* Program constants *)

suppression_cooldown_minutes == 30
BURN_RATE_ALERT_COOLDOWN_MINUTES == 30
SLO_ERROR_BUDGET_WINDOW_DAYS == 30
\* SLO_TARGET_UPTIME_PCT = 99.9, in tenths of a percent
SLO_TARGET_UPTIME_PCT_x10 == 999
\* BURN_RATE_* thresholds (14.4, 6.0, 6.0, 3.0), in tenths
BURN_RATE_CRITICAL_1H_x10 == 144
BURN_RATE_CRITICAL_6H_x10 == 60
BURN_RATE_WARNING_1H_x10 == 60
BURN_RATE_WARNING_6H_x10 == 30
\* .limit(8) of should_create_alert, .limit(5) of should_create_recovery_alert
FailureLogLimit == 8
RecoveryLogLimit == 5
\* `consecutive_successes >= 3`
RecoverySuccesses == 3
\* time.sleep(sleep_seconds) of monitor_worker
sleep_seconds == 30
\* the latency heuristic of classify_root_cause: `>= 2500`
HighPhaseLatencyMs == 2500
\* NETWORK_MIN_DOWNLOAD_MBPS = 0.05, in kbit/s; NETWORK_MAX_LATENCY_MS
NETWORK_MIN_DOWNLOAD_KBPS == 50
NETWORK_MAX_LATENCY_MS == 3000
\* `float(size_download) >= 1024.0`
SpeedEnforceBytes == 1024
\* AIAlertManager: `len(historical_logs) < 50`, `.limit(10)`,
\* training_interval_minutes, in minutes
AiMinLogs == 50
AiStableChecks == 10
training_interval_minutes == 20

\* the values ALERT_FAILURE_THRESHOLD is run with: max(2, .) of 2 and of the default 3
Thresholds == {2, 3}

\* seconds from the start of one tick to the start of the next one the model
\* follows: the sleep plus the time the tick took.  60 s is one default
\* check interval; 3660 s is longer than both cooldown windows and than the
\* one-hour SLO window.
TickSleeps == {2 * sleep_seconds, 61 * 60}

----------------------------------------------------------------------------
(* Sequence helpers *)

Min(S) == CHOOSE x \in S : \A y \in S : x <= y
Max(S) == CHOOSE x \in S : \A y \in S : x >= y

Reverse(s) == [i \in 1..Len(s) |-> s[Len(s) + 1 - i]]

\* cursor.limit(n)
Limit(s, n) == IF Len(s) <= n THEN s ELSE SubSeq(s, 1, n)

----------------------------------------------------------------------------
(* db.monitoring_logs queries *)

\* the query without the check_skipped filter
RecentLogs_unfiltered(logs, n) ==
    Limit(Reverse(logs), n)

\* find({api_id, check_skipped: {$ne: True}}).sort("timestamp", -1).limit(n)
RecentLogs(logs, n) ==
    Limit(Reverse(SelectSeq(logs, LAMBDA l : ~l.check_skipped)), n)

count_consecutive_failures(logs) ==
    LET stop == {i \in 1..Len(logs) : logs[i].is_up}
    IN  IF stop = {} THEN Len(logs) ELSE Min(stop) - 1

\* the count without the `break`: every up record of the window
count_successes_no_break(logs) ==
    Cardinality({i \in 1..Len(logs) : logs[i].is_up})

count_consecutive_successes(logs) ==
    LET stop == {i \in 1..Len(logs) : ~logs[i].is_up}
    IN  IF stop = {} THEN Len(logs) ELSE Min(stop) - 1

----------------------------------------------------------------------------
(* db.alert_incidents *)

\* the lookup without the status filter
get_latest_incident(incs, api_id) ==
    LET mine == {i \in 1..Len(incs) : incs[i].api_id = api_id}
    IN  IF mine = {} THEN 0
        ELSE CHOOSE i \in mine : \A j \in mine :
                 \/ incs[i].created_at > incs[j].created_at
                 \/ (incs[i].created_at = incs[j].created_at /\ i <= j)

\* find_one({api_id, status: "open"}, sort=[("created_at", -1)]); 0 when none
get_open_incident(incs, api_id) ==
    LET open == {i \in 1..Len(incs) : incs[i].api_id = api_id
                                       /\ incs[i].status = "open"}
    IN  IF open = {} THEN 0
        ELSE CHOOSE i \in open : \A j \in open :
                 \/ incs[i].created_at > incs[j].created_at
                 \/ (incs[i].created_at = incs[j].created_at /\ i <= j)

\* the insert without the lookup of an open incident
open_incident_always(incs, api_id, now) ==
    IF \E j \in 1..Len(incs) : incs[j].incident_id = now
    THEN [raised |-> TRUE, incs |-> incs]
    ELSE [raised |-> FALSE,
          incs |-> Append(incs, [incident_id |-> now, api_id |-> api_id,
                                 status |-> "open", created_at |-> now,
                                 failure_events |-> 1,
                                 suppressed_alerts |-> 0])]

\* The unique index on incident_id (app.py:252) makes insert_one raise when
\* a document with the same INC-<second> id is in the collection.
open_or_update_incident(incs, api_id, now) ==
    LET i == get_open_incident(incs, api_id)
    IN  IF i # 0
        THEN [raised |-> FALSE,
              incs |-> [incs EXCEPT ![i].failure_events = @ + 1]]
        ELSE IF \E j \in 1..Len(incs) : incs[j].incident_id = now
        THEN [raised |-> TRUE, incs |-> incs]
        ELSE [raised |-> FALSE,
              incs |-> Append(incs, [incident_id |-> now, api_id |-> api_id,
                                     status |-> "open", created_at |-> now,
                                     failure_events |-> 1,
                                     suppressed_alerts |-> 0])]

mark_incident_suppressed(incs, api_id) ==
    LET i == get_open_incident(incs, api_id)
    IN  IF i = 0 THEN incs
        ELSE [incs EXCEPT ![i].suppressed_alerts = @ + 1]

close_open_incident(incs, api_id) ==
    LET i == get_open_incident(incs, api_id)
    IN  IF i = 0 THEN incs
        ELSE [incs EXCEPT ![i].status = "resolved"]

----------------------------------------------------------------------------
(* AlertManager: downtime and recovery *)

\* the query with a status value no document carries
OpenAlerts_status_active(alerts, api_id, kind) ==
    {i \in 1..Len(alerts) : /\ alerts[i].api_id = api_id
                            /\ alerts[i].status = "active"
                            /\ alerts[i].alert_type = kind}

\* indices of the documents of find({api_id, status: "open", alert_type})
OpenAlerts(alerts, api_id, kind) ==
    {i \in 1..Len(alerts) : /\ alerts[i].api_id = api_id
                            /\ alerts[i].status = "open"
                            /\ alerts[i].alert_type = kind}

\* find_one({api_id, alert_type, created_at: {$gte: cutoff}})
RecentAlert(alerts, api_id, kind, cutoff) ==
    \E i \in 1..Len(alerts) : /\ alerts[i].api_id = api_id
                              /\ alerts[i].alert_type = kind
                              /\ alerts[i].created_at >= cutoff

\* the check that looks at the incident only when the run of failures has
\* just reached the threshold, never on a later check of the same run
should_create_alert_once(api_id, current_status, logs, incs, alerts, now) ==
    LET quiet == [should |-> FALSE, raised |-> FALSE, incs |-> incs]
        consecutive_failures ==
            count_consecutive_failures(RecentLogs(logs, FailureLogLimit))
        r == open_or_update_incident(incs, api_id, now)
    IN  IF current_status \notin {"Down", "Error"} THEN quiet
        ELSE IF consecutive_failures # failure_threshold THEN quiet
        ELSE IF r.raised THEN [quiet EXCEPT !.raised = TRUE]
        ELSE IF OpenAlerts(alerts, api_id, "downtime") # {}
        THEN [quiet EXCEPT !.incs = mark_incident_suppressed(r.incs, api_id)]
        ELSE [should |-> TRUE, raised |-> FALSE, incs |-> r.incs]

\* Returns should (the first component of the tuple), raised (insert_one
\* raised DuplicateKeyError, which leaves check_and_alert) and the incidents
\* collection as written.
should_create_alert(api_id, current_status, logs, incs, alerts, now) ==
    LET quiet == [should |-> FALSE, raised |-> FALSE, incs |-> incs]
        consecutive_failures ==
            count_consecutive_failures(RecentLogs(logs, FailureLogLimit))
        r == open_or_update_incident(incs, api_id, now)
        suppression_cutoff == now - suppression_cooldown_minutes * 60
    IN  IF current_status \notin {"Down", "Error"} THEN quiet
        ELSE IF consecutive_failures < failure_threshold THEN quiet
        ELSE IF r.raised THEN [quiet EXCEPT !.raised = TRUE]
        ELSE IF OpenAlerts(alerts, api_id, "downtime") # {}
        THEN [quiet EXCEPT !.incs = mark_incident_suppressed(r.incs, api_id)]
        ELSE IF RecentAlert(alerts, api_id, "downtime", suppression_cutoff)
        THEN [quiet EXCEPT !.incs = mark_incident_suppressed(r.incs, api_id)]
        ELSE [should |-> TRUE, raised |-> FALSE, incs |-> r.incs]

\* The open downtime alerts when recovery is due, {} otherwise.
should_create_recovery_alert(api_id, logs, alerts) ==
    LET open_alerts == OpenAlerts(alerts, api_id, "downtime")
        consecutive_successes ==
            count_consecutive_successes(RecentLogs(logs, RecoveryLogLimit))
    IN  IF open_alerts = {} THEN {}
        ELSE IF consecutive_successes >= RecoverySuccesses THEN open_alerts
        ELSE {}

\* _api_owner_id: the user_id of the endpoint's document, "default_user"
\* when the document or the field is missing
api_owner_id(api_id) ==
    IF api_id \in DOMAIN monitored_apis THEN monitored_apis[api_id].user_id
    ELSE "default_user"

\* delivered: IssueIntegration.create_downtime_alert returned success.
create_downtime_alert(api_id, logs, incs, alerts, now, delivered) ==
    LET same == [incs |-> incs, alerts |-> alerts]
        latest_log == SelectSeq(logs, LAMBDA l : ~l.is_up /\ ~l.check_skipped)
        r == open_or_update_incident(incs, api_id, now)
    IN  IF ~github_settings THEN same
        ELSE IF latest_log = <<>> THEN same
        ELSE IF r.raised THEN same
        ELSE IF delivered
        THEN [incs |-> r.incs,
              alerts |-> Append(alerts, [api_id |-> api_id,
                                         user_id |-> api_owner_id(api_id),
                                         alert_type |-> "downtime",
                                         status |-> "open",
                                         created_at |-> now])]
        ELSE [incs |-> r.incs, alerts |-> alerts]

\* closed: the alerts whose issue IssueIntegration.close_downtime_alert closed.
create_recovery_alert(api_id, open_alerts, incs, alerts, closed) ==
    IF ~github_settings THEN [incs |-> incs, alerts |-> alerts]
    ELSE [incs |-> close_open_incident(incs, api_id),
          alerts |-> [i \in 1..Len(alerts) |->
                         IF i \in open_alerts /\ i \in closed
                         THEN [alerts[i] EXCEPT !.status = "closed"]
                         ELSE alerts[i]]]

check_and_alert(api_id, current_status, logs, incs, alerts, now, delivered, closed) ==
    LET open_alerts == should_create_recovery_alert(api_id, logs, alerts)
        s == should_create_alert(api_id, current_status, logs, incs, alerts, now)
    IN  IF open_alerts # {}
        THEN create_recovery_alert(api_id, open_alerts, incs, alerts, closed)
        ELSE IF s.should
        THEN create_downtime_alert(api_id, logs, s.incs, alerts, now, delivered)
        ELSE [incs |-> s.incs, alerts |-> alerts]

----------------------------------------------------------------------------
(* SLO metrics and the burn-rate alert *)

\* number of the records taken since `start`, all of them or the down ones
CountSince(logs, start, down_only) ==
    Cardinality({i \in 1..Len(logs) : /\ logs[i].timestamp >= start
                                      /\ (down_only => ~logs[i].is_up)})

\* burn = (down / total) / allowed_error_rate >= threshold, in integers:
\* allowed_error_rate = (1000 - SLO_TARGET_UPTIME_PCT_x10) / 1000.
BurnAtLeast(down, total, threshold_x10) ==
    /\ total > 0
    /\ down * 1000 * 10 >= threshold_x10 * (1000 - SLO_TARGET_UPTIME_PCT_x10) * total

\* now_utc is <<>> when the caller passes no reference time, <<t>> otherwise.
slo_reference_time_wall_clock(now_utc, utcnow) == utcnow

slo_reference_time(now_utc, utcnow) ==
    IF now_utc = <<>> THEN utcnow ELSE now_utc[1]

burn_rate_alert_level_no_minimum(total_1h, down_1h, total_6h, down_6h) ==
    IF /\ BurnAtLeast(down_1h, total_1h, BURN_RATE_CRITICAL_1H_x10)
       /\ BurnAtLeast(down_6h, total_6h, BURN_RATE_CRITICAL_6H_x10)
    THEN "critical"
    ELSE IF /\ BurnAtLeast(down_1h, total_1h, BURN_RATE_WARNING_1H_x10)
            /\ BurnAtLeast(down_6h, total_6h, BURN_RATE_WARNING_6H_x10)
    THEN "warning"
    ELSE "none"

burn_rate_alert_level(total_1h, down_1h, total_6h, down_6h) ==
    IF /\ total_1h >= 3 /\ total_6h >= 6
       /\ BurnAtLeast(down_1h, total_1h, BURN_RATE_CRITICAL_1H_x10)
       /\ BurnAtLeast(down_6h, total_6h, BURN_RATE_CRITICAL_6H_x10)
    THEN "critical"
    ELSE IF /\ total_1h >= 3 /\ total_6h >= 6
            /\ BurnAtLeast(down_1h, total_1h, BURN_RATE_WARNING_1H_x10)
            /\ BurnAtLeast(down_6h, total_6h, BURN_RATE_WARNING_6H_x10)
    THEN "warning"
    ELSE "none"

compute_slo_metrics(logs, now_utc, utcnow) ==
    LET now == slo_reference_time(now_utc, utcnow)
        start_budget == now - SLO_ERROR_BUDGET_WINDOW_DAYS * 24 * 3600
        counted == SelectSeq(logs, LAMBDA l : l.timestamp >= start_budget
                                              /\ ~l.check_skipped)
        total_24h == CountSince(counted, now - 24 * 3600, FALSE)
        down_24h == CountSince(counted, now - 24 * 3600, TRUE)
        total_1h == CountSince(counted, now - 3600, FALSE)
        down_1h  == CountSince(counted, now - 3600, TRUE)
        total_6h == CountSince(counted, now - 6 * 3600, FALSE)
        down_6h  == CountSince(counted, now - 6 * 3600, TRUE)
    IN  [checks_24h |-> total_24h, up_24h |-> total_24h - down_24h,
         total_budget |-> Len(counted),
         down_budget |-> CountSince(counted, start_budget, TRUE),
         total_1h |-> total_1h, down_1h |-> down_1h,
         total_6h |-> total_6h, down_6h |-> down_6h,
         burn_rate_alert_level |->
             burn_rate_alert_level(total_1h, down_1h, total_6h, down_6h)]

sync_burn_rate_alert_create_only(api_id, slo_metrics, alerts, now) ==
    IF /\ slo_metrics.burn_rate_alert_level \in {"warning", "critical"}
       /\ OpenAlerts(alerts, api_id, "burn_rate") = {}
       /\ ~RecentAlert(alerts, api_id, "burn_rate",
                       now - BURN_RATE_ALERT_COOLDOWN_MINUTES * 60)
    THEN Append(alerts, [api_id |-> api_id, user_id |-> api_owner_id(api_id),
                         alert_type |-> "burn_rate", status |-> "open",
                         created_at |-> now,
                         severity |-> slo_metrics.burn_rate_alert_level,
                         updated_at |-> -1, resolution |-> "None"])
    ELSE alerts

sync_burn_rate_alert(api_id, slo_metrics, alerts, now) ==
    LET level == slo_metrics.burn_rate_alert_level
        open == OpenAlerts(alerts, api_id, "burn_rate")
        \* sort=[("created_at", DESCENDING)]
        open_alert == CHOOSE i \in open : \A j \in open :
                          \/ alerts[i].created_at > alerts[j].created_at
                          \/ (alerts[i].created_at = alerts[j].created_at /\ i <= j)
        cooldown_cutoff == now - BURN_RATE_ALERT_COOLDOWN_MINUTES * 60
    IN  IF level \in {"warning", "critical"}
        THEN IF open # {}
             THEN [alerts EXCEPT ![open_alert].severity = level,
                                 ![open_alert].updated_at = now]
             ELSE IF RecentAlert(alerts, api_id, "burn_rate", cooldown_cutoff)
             THEN alerts
             ELSE Append(alerts, [api_id |-> api_id,
                                  user_id |-> api_owner_id(api_id),
                                  alert_type |-> "burn_rate",
                                  status |-> "open", created_at |-> now,
                                  severity |-> level, updated_at |-> -1,
                                  resolution |-> "None"])
        ELSE IF open # {}
        THEN [alerts EXCEPT ![open_alert].status = "closed",
                            ![open_alert].resolution = "Burn rate normalized"]
        ELSE alerts

----------------------------------------------------------------------------
(* AIAlertManager *)

\* find_one({api_id, status: "open", alert_type: "ai_prediction"}): the
\* query names no user_id and no order; the first document is returned.
OpenAiAlerts(alerts, api_id) ==
    {i \in 1..Len(alerts) : /\ alerts[i].api_id = api_id
                            /\ alerts[i].status = "open"
                            /\ alerts[i].alert_type = "ai_prediction"}

\* closed: IssueIntegration.close_downtime_alert returned success.  The
\* settings read are those of "default_user", taken to be configured like
\* those of the endpoint's owner.
\* `all_up and len(recent_logs) >= 10` over
\* find({api_id}).sort("timestamp", -1).limit(10)
api_is_stable(logs) ==
    LET recent_logs == Limit(Reverse(logs), AiStableChecks)
        all_up == \A i \in 1..Len(recent_logs) : recent_logs[i].is_up
    IN  all_up /\ Len(recent_logs) >= AiStableChecks

close_prediction_alert_if_stable(api_id, logs, alerts, closed) ==
    LET open == OpenAiAlerts(alerts, api_id)
    IN  IF open = {} THEN alerts
        ELSE IF api_is_stable(logs) /\ github_settings /\ closed
        THEN [alerts EXCEPT ![Min(open)].status = "closed"]
        ELSE alerts

should_train_model(api_id, ltt, now) ==
    \/ ltt[api_id] = -1
    \/ now - ltt[api_id] >= training_interval_minutes * 60

\* prediction: what the predictor returned after training, "none" (no
\* prediction), "low" (probability under the threshold 0.7) or "high".
\* Returns should_alert, the alerts collection and last_training_time.
train_and_predict(api_id, logs, alerts, ltt, now, prediction) ==
    LET open == OpenAiAlerts(alerts, api_id)
        trained == [ltt EXCEPT ![api_id] = now]
    IN  IF ~should_train_model(api_id, ltt, now)
        THEN [should_alert |-> FALSE, alerts |-> alerts, ltt |-> ltt]
        ELSE IF Len(logs) < AiMinLogs
        THEN [should_alert |-> FALSE, alerts |-> alerts, ltt |-> ltt]
        ELSE IF prediction # "high"
        THEN [should_alert |-> FALSE, alerts |-> alerts, ltt |-> trained]
        ELSE IF open # {}
        THEN [should_alert |-> FALSE,
              alerts |-> [alerts EXCEPT ![Min(open)].updated_at = now],
              ltt |-> trained]
        ELSE [should_alert |-> TRUE, alerts |-> alerts, ltt |-> trained]

\* delivered: the issue tracker accepted the request.  The document is
\* inserted without a user_id field ("None").
create_ai_prediction_alert(api_id, alerts, now, delivered) ==
    IF github_settings /\ delivered
    THEN Append(alerts, [api_id |-> api_id, user_id |-> "None",
                         alert_type |-> "ai_prediction", status |-> "open",
                         created_at |-> now, updated_at |-> -1])
    ELSE alerts

\* AIAlertManager.check_and_alert; ai is the record of the answers of the
\* predictor and of the issue tracker (prediction, delivered, closed).
ai_check_and_alert(api_id, logs, alerts, ltt, now, ai) ==
    LET stable == close_prediction_alert_if_stable(api_id, logs, alerts, ai.closed)
        t == train_and_predict(api_id, logs, stable, ltt, now, ai.prediction)
    IN  [alerts |-> IF t.should_alert
                    THEN create_ai_prediction_alert(api_id, t.alerts, now, ai.delivered)
                    ELSE t.alerts,
         ltt |-> t.ltt]

----------------------------------------------------------------------------
(* GET /api/alert-status/<api_id> *)

\* find_one({api_id, user_id, status: "open", alert_type}): <<>> for None,
\* <<document>> otherwise.  A document inserted without a user_id field
\* ("None") matches no user_id of a logged-in user.
find_open_alert(alerts, api_id, user_id, kind) ==
    LET found == {i \in OpenAlerts(alerts, api_id, kind) : alerts[i].user_id = user_id}
    IN  IF found = {} THEN <<>> ELSE <<alerts[Min(found)]>>

\* The response for a logged-in user: 404 unless the endpoint is the user's
\* (ensure_api_access_or_error).  Incidents are inserted with the owner's
\* user_id (alert_manager.py:66), so the owner's query finds them by api_id.
get_alert_status(api_id, user_id, alerts, incs) ==
    IF api_owner_id(api_id) # user_id
    THEN [status_code |-> 404]
    ELSE [status_code |-> 200,
          api_id |-> api_id,
          downtime_alert |-> find_open_alert(alerts, api_id, user_id, "downtime"),
          ai_prediction |-> find_open_alert(alerts, api_id, user_id, "ai_prediction"),
          burn_rate_alert |-> find_open_alert(alerts, api_id, user_id, "burn_rate"),
          incident_status |->
              LET open == {i \in 1..Len(incs) : /\ incs[i].api_id = api_id
                                                /\ incs[i].status = "open"}
                  latest == CHOOSE i \in open : \A j \in open :
                                \/ incs[i].created_at > incs[j].created_at
                                \/ (incs[i].created_at = incs[j].created_at /\ i <= j)
              IN  IF open = {} THEN <<>> ELSE <<incs[latest]>>]

----------------------------------------------------------------------------
(* Root-cause classification *)

\* An error text is modelled by the vocabularies it matches: "network" for
\* "low network" / "network is unreachable", "timeout", "dns" and "tls" for
\* the three pattern tuples.  A status code of 0 stands for None.
Vocabularies == {"network", "timeout", "dns", "tls"}

\* the status codes looked at before the skip flag
classify_root_cause_status_first(log_entry) ==
    IF log_entry.status_code \in {401, 403, 407} THEN "auth"
    ELSE IF log_entry.status_code >= 500 /\ log_entry.status_code <= 599 THEN "5xx"
    ELSE IF log_entry.check_skipped \/ log_entry.skip_reason = "network_unavailable"
    THEN "network"
    ELSE IF "network" \in log_entry.error_message THEN "network"
    ELSE IF ~log_entry.network_is_up /\ ~log_entry.is_up THEN "network"
    ELSE IF "timeout" \in log_entry.error_message THEN "timeout"
    ELSE IF "dns" \in log_entry.error_message THEN "dns"
    ELSE IF "tls" \in log_entry.error_message THEN "tls"
    ELSE IF ~log_entry.is_up /\ log_entry.dns_latency_ms >= HighPhaseLatencyMs THEN "dns"
    ELSE IF ~log_entry.is_up /\ log_entry.tls_latency_ms >= HighPhaseLatencyMs THEN "tls"
    ELSE "unknown"

classify_root_cause(log_entry) ==
    IF log_entry.check_skipped \/ log_entry.skip_reason = "network_unavailable"
    THEN "network"
    ELSE IF "network" \in log_entry.error_message THEN "network"
    ELSE IF ~log_entry.network_is_up /\ ~log_entry.is_up THEN "network"
    ELSE IF log_entry.status_code \in {401, 403, 407} THEN "auth"
    ELSE IF log_entry.status_code >= 500 /\ log_entry.status_code <= 599 THEN "5xx"
    ELSE IF "timeout" \in log_entry.error_message THEN "timeout"
    ELSE IF "dns" \in log_entry.error_message THEN "dns"
    ELSE IF "tls" \in log_entry.error_message THEN "tls"
    ELSE IF ~log_entry.is_up /\ log_entry.dns_latency_ms >= HighPhaseLatencyMs THEN "dns"
    ELSE IF ~log_entry.is_up /\ log_entry.tls_latency_ms >= HighPhaseLatencyMs THEN "tls"
    ELSE "unknown"

----------------------------------------------------------------------------
(* Network reachability gate *)

perform_network_speed_check_any_size(response) ==
    LET enforce_speed == NETWORK_MIN_DOWNLOAD_KBPS > 0
        speed_ok == enforce_speed =>
                        response.size_download * 8
                            >= NETWORK_MIN_DOWNLOAD_KBPS * response.total_time_ms
        latency_ok == response.total_time_ms <= NETWORK_MAX_LATENCY_MS
        status_ok == 200 <= response.status_code /\ response.status_code < 500
        network_up == status_ok /\ latency_ok /\ speed_ok
    IN  IF response.transport_error
        THEN [network_up |-> FALSE, error |-> "transport", status_code |-> 0]
        ELSE [network_up |-> network_up,
              error |-> IF network_up THEN "None"
                        ELSE IF ~status_ok THEN "status"
                        ELSE IF ~latency_ok THEN "high latency"
                        ELSE "low speed",
              status_code |-> response.status_code]

\* response: what the transfer to the one configured test URL gave, either a
\* transport error (pycurl.error) or a status code, the number of bytes
\* downloaded and the total time in milliseconds (at least 1).
\* download_mbps >= NETWORK_MIN_DOWNLOAD_MBPS, with download_mbps =
\* size * 8 / (seconds * 1000000), is size * 8 >= kbps * milliseconds.
perform_network_speed_check(response) ==
    LET enforce_speed == response.size_download >= SpeedEnforceBytes
                         /\ NETWORK_MIN_DOWNLOAD_KBPS > 0
        speed_ok == enforce_speed =>
                        response.size_download * 8
                            >= NETWORK_MIN_DOWNLOAD_KBPS * response.total_time_ms
        latency_ok == response.total_time_ms <= NETWORK_MAX_LATENCY_MS
        status_ok == 200 <= response.status_code /\ response.status_code < 500
        network_up == status_ok /\ latency_ok /\ speed_ok
    IN  IF response.transport_error
        THEN [network_up |-> FALSE, error |-> "transport", status_code |-> 0]
        ELSE [network_up |-> network_up,
              error |-> IF network_up THEN "None"
                        ELSE IF ~status_ok THEN "status"
                        ELSE IF ~latency_ok THEN "high latency"
                        ELSE "low speed",
              status_code |-> response.status_code]

----------------------------------------------------------------------------
(* monitor_worker *)

PREMIUM_INTERVAL_SECONDS == {30, 10, 5, 1}

\* the interval the loop applies (app.py:1810-1820), in seconds
EffectiveInterval(api) ==
    IF api.check_frequency_seconds \in PREMIUM_INTERVAL_SECONDS /\ ~api.subscriber
    THEN 60
    ELSE api.check_frequency_seconds

ShouldCheck_strictly_after(api, now) ==
    \/ api.last_checked_at = -1
    \/ now > api.last_checked_at + EffectiveInterval(api)

\* should_check; last_checked_at = -1 stands for a missing value
ShouldCheck(api, now) ==
    \/ api.last_checked_at = -1
    \/ now >= api.last_checked_at + EffectiveInterval(api)

TotalLogs ==
    LET RECURSIVE Sum(_)
        Sum(S) == IF S = {} THEN 0
                  ELSE LET a == CHOOSE x \in S : TRUE
                       IN  Len(monitoring_logs[a]) + Sum(S \ {a})
    IN  Sum(DOMAIN monitoring_logs)

\* The gate's transfer in the ticks of the monitor loop followed here: an
\* empty 204 response after 100 ms, or a transport error.
PlainGate ==
    {[transport_error |-> FALSE, status_code |-> 204,
      size_download |-> 0, total_time_ms |-> 100],
     [transport_error |-> TRUE, status_code |-> 0,
      size_download |-> 0, total_time_ms |-> 1]}

\* What perform_network_speed_check returns for them.
NetworkChecks == {perform_network_speed_check(r) : r \in PlainGate}

\* Head of one iteration of the while loop: the sleep that ended the previous
\* iteration, the gate, and the list of the active endpoints.
Tick(sleeps, checks) ==
    /\ apis = <<>>
    /\ \E slept \in sleeps, check \in checks :
        /\ clock + slept <= MaxClock
        /\ clock' = clock + slept
        /\ network_check' = check
        /\ network_is_up' = (check.network_up \/ check.error = "None")
    /\ apis' = LET active == {a \in DOMAIN monitored_apis : monitored_apis[a].is_active}
                   RECURSIVE List(_)
                   List(S) == IF S = {} THEN <<>>
                              ELSE LET a == CHOOSE x \in S : \A y \in S : x <= y
                                   IN  <<[monitored_apis[a] EXCEPT !.id = a]>>
                                       \o List(S \ {a})
               IN  List(active)
    /\ UNCHANGED <<monitored_apis, monitoring_logs, alert_history, alert_incidents,
                   github_settings, failure_threshold, last_training_time, args, result, worker>>

\* The head of an iteration whose gate transfer is one of PlainGate.
StartTick(sleeps) == Tick(sleeps, NetworkChecks)

\* One pass of the body of `for api in apis` for an endpoint that is not due.
SkipApi ==
    /\ apis # <<>>
    /\ ~ShouldCheck(Head(apis), clock)
    /\ apis' = Tail(apis)
    /\ UNCHANGED <<clock, network_is_up, monitored_apis, monitoring_logs,
                   alert_history, alert_incidents, github_settings, failure_threshold,
                   last_training_time, args, result,
                   network_check, worker>>

\* Seconds after which perform_latency_check gives up a transfer.
ProbeTimeout == 10

\* What perform_latency_check returns, as far as the loop reads it: the
\* verdict, the status code (0 for None), the vocabularies the error text
\* matches and the DNS and TLS phases in milliseconds; total_seconds is the
\* time the call took, in whole seconds.  A response gives a status code and
\* no error text, a transport error the reverse.
PlainProbes ==
    {[up |-> TRUE, status_code |-> 200, error |-> {},
      dns_latency_ms |-> 0, tls_latency_ms |-> 0, total_seconds |-> 0],
     [up |-> FALSE, status_code |-> 0, error |-> {},
      dns_latency_ms |-> 0, tls_latency_ms |-> 0, total_seconds |-> 0]}

\* A transfer that stalls until the timeout: pycurl raises, the result is
\* down with the error text of the timeout.
StalledProbes ==
    {[up |-> FALSE, status_code |-> 0, error |-> {"timeout"},
      dns_latency_ms |-> 0, tls_latency_ms |-> 0, total_seconds |-> ProbeTimeout]}

\* The answers of the predictor and of the issue tracker to the AI alert
\* step; NoPrediction where the step never asks for them.
NoPrediction == {[prediction |-> "none", delivered |-> FALSE, closed |-> FALSE]}
Predictions ==
    [prediction : {"none", "low", "high"}, delivered : BOOLEAN, closed : BOOLEAN]

\* One pass of the body of `for api in apis` for a due endpoint: the probe,
\* the log record with its root-cause hint, downtime/recovery alerting, the
\* AI alert step, the burn-rate alert and the update of the endpoint.  res is
\* the probe's result, delivered and closed are the issue tracker's answers
\* to the downtime path, ai those to the AI alert step.  The record carries
\* the time the probe started; everything after the probe reads the clock
\* when the probe has returned.
CheckApi(max_logs, probes, predictions) ==
    /\ apis # <<>>
    /\ ShouldCheck(Head(apis), clock)
    /\ TotalLogs < max_logs
    /\ \E res \in probes, delivered \in BOOLEAN, ai \in predictions,
          closed \in SUBSET OpenAlerts(alert_history, Head(apis).id, "downtime") :
        LET a == Head(apis).id
            ts == clock
            now == clock + res.total_seconds
            up == res.up
            low_network_for_check == ~up /\ ~network_is_up
            entry == [is_up |-> up, check_skipped |-> low_network_for_check,
                      skip_reason |-> IF low_network_for_check
                                      THEN "network_unavailable" ELSE "None",
                      timestamp |-> ts,
                      status_code |-> res.status_code,
                      error_message |-> IF low_network_for_check
                                        THEN res.error \cup {"network"}
                                        ELSE res.error,
                      network_is_up |-> network_is_up,
                      dns_latency_ms |-> res.dns_latency_ms,
                      tls_latency_ms |-> res.tls_latency_ms]
            log_entry == [is_up |-> up, check_skipped |-> low_network_for_check,
                          skip_reason |-> entry.skip_reason,
                          timestamp |-> ts,
                          root_cause_hint |-> IF ~up THEN classify_root_cause(entry)
                                              ELSE "None"]
            logs == Append(monitoring_logs[a], log_entry)
            current_status == IF low_network_for_check THEN "Low Network"
                              ELSE IF up THEN "Up" ELSE "Down"
            alerted == IF current_status # "Low Network"
                       THEN check_and_alert(a, current_status, logs, alert_incidents,
                                            alert_history, now, delivered, closed)
                       ELSE [incs |-> alert_incidents, alerts |-> alert_history]
            predicted == IF ~low_network_for_check
                         THEN ai_check_and_alert(a, logs, alerted.alerts,
                                                 last_training_time, now, ai)
                         ELSE [alerts |-> alerted.alerts, ltt |-> last_training_time]
            slo_metrics == compute_slo_metrics(logs, <<>>, now)
        IN  /\ clock' = now
            /\ monitoring_logs' = [monitoring_logs EXCEPT ![a] = logs]
            /\ alert_incidents' = alerted.incs
            /\ alert_history' = sync_burn_rate_alert(a, slo_metrics, predicted.alerts, now)
            /\ last_training_time' = predicted.ltt
            /\ monitored_apis' =
                   IF a \in DOMAIN monitored_apis
                   THEN [monitored_apis EXCEPT ![a].last_checked_at = ts,
                                               ![a].last_status = current_status]
                   ELSE monitored_apis
    /\ apis' = Tail(apis)
    /\ UNCHANGED <<network_is_up, github_settings, failure_threshold, args, result,
                   network_check, worker>>

----------------------------------------------------------------------------
(* Specification *)

NewApi(id, seconds, subscriber) ==
    [id |-> id, user_id |-> "u1", is_active |-> TRUE,
     check_frequency_seconds |-> seconds, subscriber |-> subscriber,
     last_checked_at |-> -1, last_status |-> "Pending"]

\* The store after init_mongodb with the given endpoints registered and
\* nothing probed yet.
Fresh(endpoints) ==
    /\ clock = 0
    /\ apis = <<>>
    /\ network_is_up = TRUE
    /\ monitored_apis = endpoints
    /\ monitoring_logs = [a \in DOMAIN endpoints |-> <<>>]
    /\ alert_history = <<>>
    /\ alert_incidents = <<>>
    /\ last_training_time = [a \in DOMAIN endpoints |-> -1]
    /\ result = <<>>
    /\ worker = <<>>
    /\ network_check = [network_up |-> TRUE, error |-> "None", status_code |-> 204]

\* Endpoint 1 is checked every minute, endpoint 2 every hour; the issue
\* tracker is configured or not; the threshold is 2 or the default 3.
Init ==
    /\ Fresh([a \in {1, 2} |-> NewApi(a, IF a = 1 THEN 60 ELSE 3600, FALSE)])
    /\ args = <<>>
    /\ github_settings \in BOOLEAN
    /\ failure_threshold \in Thresholds

Next == StartTick(TickSleeps) \/ SkipApi \/ CheckApi(MaxLogs, PlainProbes, NoPrediction)

Spec == Init /\ [][Next]_vars

\* Two endpoints sharing ticks one minute apart: endpoint 1 is checked every
\* six minutes, endpoint 2 every minute; the issue tracker is configured and
\* the threshold is 2.
InitPair ==
    /\ Fresh([a \in {1, 2} |-> NewApi(a, IF a = 1 THEN 360 ELSE 60, FALSE)])
    /\ args = <<>>
    /\ github_settings = TRUE
    /\ failure_threshold = 2

NextPair ==
    StartTick({2 * sleep_seconds}) \/ SkipApi \/ CheckApi(MaxPairLogs, PlainProbes, NoPrediction)

SpecPair == InitPair /\ [][NextPair]_vars

\* Two endpoints both checked every minute, so that every other tick probes
\* both, one after the other; a probe answers at once or stalls until the
\* timeout.  The threshold is 2; the issue tracker is configured or not.
InitTwin ==
    /\ Fresh([a \in {1, 2} |-> NewApi(a, 60, FALSE)])
    /\ args = <<>>
    /\ github_settings \in BOOLEAN
    /\ failure_threshold = 2

\* The probes of SpecTwin.
TwinProbes == PlainProbes \cup StalledProbes

NextTwin ==
    \/ StartTick({sleep_seconds})
    \/ SkipApi
    \/ CheckApi(MaxTwinLogs, TwinProbes, NoPrediction)

SpecTwin == InitTwin /\ [][NextTwin]_vars

\* POST /api/advanced/delete_monitor by the endpoint's owner: the document
\* of the endpoint is deleted, then its probe records; 404 and nothing
\* changed when there is no such document.  The handler runs in a request
\* thread, between any two passes of the monitor loop.
delete_monitor(id) ==
    IF id \notin DOMAIN monitored_apis THEN UNCHANGED vars
    ELSE /\ monitored_apis' = [a \in DOMAIN monitored_apis \ {id} |-> monitored_apis[a]]
         /\ monitoring_logs' = [monitoring_logs EXCEPT ![id] = <<>>]
         /\ UNCHANGED <<clock, apis, network_is_up, alert_history, alert_incidents,
                        github_settings, failure_threshold, last_training_time,
                        args, result, network_check, worker>>

DeleteMonitor == \E id \in DOMAIN monitoring_logs : delete_monitor(id)

\* The monitor loop over the two endpoints of InitPair, and their owner
\* deleting them.
NextDelete ==
    \/ StartTick({2 * sleep_seconds})
    \/ SkipApi
    \/ CheckApi(MaxDeleteLogs, PlainProbes, NoPrediction)
    \/ DeleteMonitor

SpecDelete == InitPair /\ [][NextDelete]_vars

\* An endpoint checked every two minutes that has been up for 49 checks, at
\* time 0: no alert, no incident, no model trained yet (49 records are under
\* the 50 the training asks for).  Ticks are one minute or twenty apart.
UpHistory(n, seconds) ==
    [i \in 1..n |-> [is_up |-> TRUE, check_skipped |-> FALSE, skip_reason |-> "None",
                     timestamp |-> (i - n) * seconds, root_cause_hint |-> "None"]]

InitAi ==
    /\ clock = 0
    /\ apis = <<>>
    /\ network_is_up = TRUE
    /\ monitored_apis = [a \in {1} |-> [NewApi(a, 120, FALSE) EXCEPT
                                           !.last_checked_at = 0,
                                           !.last_status = "Up"]]
    /\ monitoring_logs = [a \in {1} |-> UpHistory(AiMinLogs - 1, 120)]
    /\ alert_history = <<>>
    /\ alert_incidents = <<>>
    /\ last_training_time = [a \in {1} |-> -1]
    /\ args = <<>>
    /\ result = <<>>
    /\ worker = <<>>
    /\ network_check = [network_up |-> TRUE, error |-> "None", status_code |-> 204]
    /\ github_settings = TRUE
    /\ failure_threshold = 3

AiTickSleeps == {2 * sleep_seconds, training_interval_minutes * 60}

NextAi ==
    StartTick(AiTickSleeps) \/ SkipApi \/ CheckApi(MaxAiLogs, PlainProbes, Predictions)

SpecAi == InitAi /\ [][NextAi]_vars

\* The monitor loop of SpecAi with the alert-status query of a logged-in
\* user, the owner "u1" or another one, arriving at any time; result holds
\* the last response.
Users == {"u1", "u2"}

AlertStatusCall ==
    /\ \E a \in DOMAIN monitored_apis, u \in Users :
           result' = <<get_alert_status(a, u, alert_history, alert_incidents)>>
    /\ UNCHANGED <<clock, apis, network_is_up, monitored_apis, monitoring_logs,
                   alert_history, alert_incidents, github_settings,
                   failure_threshold, last_training_time, args,
                   network_check, worker>>

NextStatus == NextAi \/ AlertStatusCall

SpecStatus == InitAi /\ [][NextStatus]_vars

\* train_model_worker, the process started for a training task, as far as
\* it reads and writes alert_history.  First half: the model is trained
\* (trained: train_model_for_api_category returned true), the predictor is
\* asked, and for a probability of 0.70 or more the open ai_prediction alert
\* of the endpoint is looked up; the process goes on to the second half when
\* there is none, and ends otherwise.
TrainModelWorkerLookup ==
    /\ worker = <<>>
    /\ \E api_id \in DOMAIN monitored_apis, trained \in BOOLEAN,
          prediction \in {"none", "low", "high"} :
        LET existing_alert == OpenAiAlerts(alert_history, api_id)
        IN  worker' = IF trained /\ prediction = "high" /\ existing_alert = {}
                      THEN <<api_id>> ELSE <<>>
    /\ UNCHANGED <<clock, apis, network_is_up, monitored_apis, monitoring_logs,
                   alert_history, alert_incidents, github_settings,
                   failure_threshold, last_training_time, args, result,
                   network_check>>

\* Second half: create_ai_prediction_alert posts the issue and inserts the
\* alert; the process ends.
TrainModelWorkerCreate ==
    /\ worker # <<>>
    /\ \E delivered \in BOOLEAN :
        alert_history' = create_ai_prediction_alert(worker[1], alert_history,
                                                    clock, delivered)
    /\ worker' = <<>>
    /\ UNCHANGED <<clock, apis, network_is_up, monitored_apis, monitoring_logs,
                   alert_incidents, github_settings, failure_threshold,
                   last_training_time, args, result, network_check>>

\* The monitor loop over the endpoint of InitAi, and a training task for it
\* running in its own process.
NextWorker ==
    \/ StartTick(AiTickSleeps)
    \/ SkipApi
    \/ CheckApi(MaxWorkerLogs, PlainProbes, Predictions)
    \/ TrainModelWorkerLookup
    \/ TrainModelWorkerCreate

SpecWorker == InitAi /\ [][NextWorker]_vars

\* The monitor loop with gate transfers of every kind: an empty 204, a
\* transport error, a 503, a 200 after more than NETWORK_MAX_LATENCY_MS, and
\* 2048 bytes at 16 kbit/s.
LoopGate ==
    {[transport_error |-> FALSE, status_code |-> 204,
      size_download |-> 0, total_time_ms |-> 100],
     [transport_error |-> TRUE, status_code |-> 0,
      size_download |-> 0, total_time_ms |-> 1],
     [transport_error |-> FALSE, status_code |-> 503,
      size_download |-> 0, total_time_ms |-> 100],
     [transport_error |-> FALSE, status_code |-> 200,
      size_download |-> 0, total_time_ms |-> NETWORK_MAX_LATENCY_MS + 1],
     [transport_error |-> FALSE, status_code |-> 200,
      size_download |-> 2 * SpeedEnforceBytes, total_time_ms |-> 1000]}

\* What perform_network_speed_check returns for them.
LoopChecks == {perform_network_speed_check(r) : r \in LoopGate}

GateTick == Tick({2 * sleep_seconds}, LoopChecks)

NextNet == GateTick \/ SkipApi \/ CheckApi(MaxNetLogs, PlainProbes, NoPrediction)

SpecNet == Init /\ [][NextNet]_vars

\* Scheduling: endpoint 1 with a stored interval of 15, 30, 60 or 120
\* seconds, its owner a subscriber or not (a free owner's 30 seconds is what
\* a downgrade leaves behind; add_monitor and update_monitor refuse only
\* the four premium intervals); endpoint 2 every minute, active or paused.
\* The loop sleeps sleep_seconds between ticks.
InitFreq ==
    /\ \E seconds \in {15, 30, 60, 120}, subscriber, is_active \in BOOLEAN :
           Fresh([a \in {1, 2} |->
                     IF a = 1 THEN NewApi(a, seconds, subscriber)
                     ELSE [NewApi(a, 60, FALSE) EXCEPT !.is_active = is_active]])
    /\ args = <<>>
    /\ github_settings = FALSE
    /\ failure_threshold = 3

NextFreq ==
    StartTick({sleep_seconds}) \/ SkipApi \/ CheckApi(MaxFreqLogs, PlainProbes, NoPrediction)

SpecFreq == InitFreq /\ [][NextFreq]_vars

----------------------------------------------------------------------------
(* Direct calls of the program's functions *)

\* The store with no endpoint registered, in which the monitor loop has
\* nothing to do; a call's arguments are in args, its return value is
\* appended to result.
Idle(inputs) ==
    /\ Fresh([a \in {} |-> NewApi(a, 60, FALSE)])
    /\ github_settings = FALSE
    /\ failure_threshold = 3
    /\ args \in inputs

Return(value) ==
    /\ result' = Append(result, value)
    /\ UNCHANGED <<clock, apis, network_is_up, monitored_apis, monitoring_logs,
                   alert_history, alert_incidents, github_settings,
                   failure_threshold, last_training_time, args,
                   network_check, worker>>

\* The dictionaries classify_root_cause is called with: a result, up or
\* down, with any of the signals the function reads.
LogEntries ==
    [is_up : BOOLEAN, check_skipped : BOOLEAN,
     skip_reason : {"None", "network_unavailable"}, network_is_up : BOOLEAN,
     status_code : {0, 401, 403, 404, 407, 499, 500, 599, 600},
     error_message : SUBSET Vocabularies,
     dns_latency_ms : {0, HighPhaseLatencyMs - 1, HighPhaseLatencyMs},
     tls_latency_ms : {0, HighPhaseLatencyMs - 1, HighPhaseLatencyMs}]

InitClassify == Idle(LogEntries) /\ result = <<>>

ClassifyCall == result = <<>> /\ Return(classify_root_cause(args))

NextClassify == ClassifyCall

SpecClassify == InitClassify /\ [][NextClassify]_vars

\* n probe records, one a second from `first` on, all up or all down.
Records(n, first, is_up, skipped) ==
    [i \in 1..n |-> [is_up |-> is_up, check_skipped |-> skipped,
                     skip_reason |-> IF skipped THEN "network_unavailable" ELSE "None",
                     timestamp |-> first + i - 1,
                     root_cause_hint |-> IF is_up THEN "None" ELSE "unknown"]]

\* The history of an endpoint at time 0 with the given numbers of results
\* between six hours and one hour ago and within the last hour.
SloHistory(h) ==
    Records(h.old_up, -2 * 3600, TRUE, FALSE)
    \o Records(h.old_down, -2 * 3600 + h.old_up, FALSE, FALSE)
    \o Records(h.new_up, -1800, TRUE, FALSE)
    \o Records(h.new_down, -1800 + h.new_up, FALSE, FALSE)
    \o Records(h.skipped, -1800 + h.new_up + h.new_down, FALSE, TRUE)

SloHistories ==
    [old_up : {0, 3, MaxOldChecks}, old_down : {0, 1, 3},
     new_up : {0, 2, (MaxNewChecks - 1) \div 2, MaxNewChecks}, new_down : {0, 1, 3},
     skipped : {0, 2}]

\* compute_slo_metrics(api_id) and compute_slo_metrics(api_id, now_utc) for a
\* paused endpoint with a history, called twice while the clock runs.
InitSlo ==
    /\ clock = 0
    /\ apis = <<>>
    /\ network_is_up = TRUE
    /\ monitored_apis = [a \in {1} |-> [NewApi(a, 60, FALSE) EXCEPT
                                           !.is_active = FALSE,
                                           !.last_checked_at = 0]]
    /\ \E h \in SloHistories : monitoring_logs = [a \in {1} |-> SloHistory(h)]
    /\ alert_history = <<>>
    /\ alert_incidents = <<>>
    /\ last_training_time = [a \in {1} |-> -1]
    /\ result = <<>>
    /\ worker = <<>>
    /\ network_check = [network_up |-> TRUE, error |-> "None", status_code |-> 204]
    /\ github_settings = FALSE
    /\ failure_threshold = 3
    /\ args \in [api_id : {1}, now_utc : {<<>>, <<0>>}]

SloCall ==
    /\ Len(result) < 2
    /\ Return(compute_slo_metrics(monitoring_logs[args.api_id], args.now_utc, clock))

SloTickSleeps == {61 * 60}

NextSlo == StartTick(SloTickSleeps) \/ SloCall

SpecSlo == InitSlo /\ [][NextSlo]_vars

\* The transfers perform_network_speed_check may see within its timeout of
\* six seconds: sizes and times on both sides of the enforcement size, of
\* 0.05 Mbit/s and of the latency bound; status codes on both sides of
\* 200..499.
GateResponses ==
    [transport_error : BOOLEAN,
     status_code : {199, 200, 204, 499, 500},
     size_download : {0, SpeedEnforceBytes - 1, SpeedEnforceBytes, 20 * SpeedEnforceBytes},
     total_time_ms : {1, 163, 164, NETWORK_MAX_LATENCY_MS, NETWORK_MAX_LATENCY_MS + 1}]

InitGate == Idle(GateResponses)

GateCall == result = <<>> /\ Return(perform_network_speed_check(args))

NextGate == GateCall

SpecGate == InitGate /\ [][NextGate]_vars

\* AlertManager.__init__: max(2, int(ALERT_FAILURE_THRESHOLD))
configured_failure_threshold(env) == Max({2, env})

\* should_create_alert(api_id, "Down") in the cycle whose probe record is the
\* T-th consecutive non-skipped failure of the endpoint, T being
\* ALERT_FAILURE_THRESHOLD: earlier successes first, then T failures a
\* minute apart with skipped records in between; no Incident, no alert.
ThresholdHistory(h) ==
    LET n == h.ups + h.skipped + h.ALERT_FAILURE_THRESHOLD
    IN  [i \in 1..n |->
            [is_up |-> i <= h.ups,
             check_skipped |-> i > h.ups /\ i <= h.ups + h.skipped,
             skip_reason |-> IF i > h.ups /\ i <= h.ups + h.skipped
                             THEN "network_unavailable" ELSE "None",
             timestamp |-> (i - n) * 60,
             root_cause_hint |-> IF i <= h.ups THEN "None"
                                 ELSE IF i <= h.ups + h.skipped THEN "network"
                                 ELSE "unknown"]]

InitThreshold ==
    /\ clock = 0
    /\ apis = <<>>
    /\ network_is_up = TRUE
    /\ monitored_apis = [a \in {1} |-> [NewApi(a, 60, FALSE) EXCEPT
                                           !.last_checked_at = -60,
                                           !.last_status = "Down"]]
    /\ args \in [api_id : {1}, ALERT_FAILURE_THRESHOLD : 1..MaxThreshold,
                  ups : 0..2, skipped : 0..2]
    /\ monitoring_logs = [a \in {1} |-> ThresholdHistory(args)]
    /\ failure_threshold = configured_failure_threshold(args.ALERT_FAILURE_THRESHOLD)
    /\ github_settings \in BOOLEAN
    /\ alert_history = <<>>
    /\ alert_incidents = <<>>
    /\ last_training_time = [a \in {1} |-> -1]
    /\ result = <<>>
    /\ worker = <<>>
    /\ network_check = [network_up |-> TRUE, error |-> "None", status_code |-> 204]

ShouldCreateCall ==
    /\ result = <<>>
    /\ LET r == should_create_alert(args.api_id, "Down", monitoring_logs[args.api_id],
                                    alert_incidents, alert_history, clock)
       IN  /\ result' = <<r.should>>
           /\ alert_incidents' = r.incs
    /\ UNCHANGED <<clock, apis, network_is_up, monitored_apis, monitoring_logs,
                   alert_history, github_settings, failure_threshold,
                   last_training_time, args, network_check, worker>>

NextThreshold == ShouldCreateCall

SpecThreshold == InitThreshold /\ [][NextThreshold]_vars

----------------------------------------------------------------------------
(* Vocabulary of the properties, read off the stored documents only *)

Endpoints == DOMAIN monitored_apis

\* the probe history of an endpoint without the skipped records
NonSkipped(a) == SelectSeq(monitoring_logs[a], LAMBDA l : ~l.check_skipped)

\* length of the run of up (of down) results that ends the sequence
TrailingRun(logs, up) ==
    LET other == {i \in 1..Len(logs) : logs[i].is_up # up}
    IN  IF other = {} THEN Len(logs) ELSE Len(logs) - Max(other)

UpStreak(a) == TrailingRun(NonSkipped(a), TRUE)
DownStreak(a) == TrailingRun(NonSkipped(a), FALSE)

AlertsOf(a, kind) ==
    {i \in 1..Len(alert_history) : /\ alert_history[i].api_id = a
                                   /\ alert_history[i].alert_type = kind}

OpenAlertsOf(a, kind) == {i \in AlertsOf(a, kind) : alert_history[i].status = "open"}

IncidentsOf(a) == {i \in 1..Len(alert_incidents) : alert_incidents[i].api_id = a}

OpenIncidentsOf(a) == {i \in IncidentsOf(a) : alert_incidents[i].status = "open"}

\* the step is a probe cycle of endpoint a
Cycle(a) == Len(monitoring_logs'[a]) = Len(monitoring_logs[a]) + 1

LastLog(a) == monitoring_logs[a][Len(monitoring_logs[a])]

----------------------------------------------------------------------------
(* Properties *)

\* C1: every endpoint has at most one Incident with status open; a failure
\* at or over the threshold that finds an open Incident updates it.
C1_OneOpenIncident ==
    \A a \in Endpoints : Cardinality(OpenIncidentsOf(a)) <= 1

\* an open Incident that later threshold-crossing failures were added to
C1_Witness ==
    \E a \in Endpoints : \E i \in OpenIncidentsOf(a) :
        /\ alert_incidents[i].failure_events >= 3
        /\ Cardinality(IncidentsOf(a)) = 1

\* C2: every endpoint has at most one open downtime AlertRecord and at most
\* one open burn_rate AlertRecord.
C2_OneOpenAlertPerKind ==
    \A a \in Endpoints : \A kind \in {"downtime", "burn_rate"} :
        Cardinality(OpenAlertsOf(a, kind)) <= 1

\* both kinds are open and a further trigger of each kind has arrived: the
\* downtime trigger was grouped into the Incident, the burn_rate trigger
\* updated the open record
C2_Witness ==
    \E a \in Endpoints :
        /\ OpenAlertsOf(a, "downtime") # {}
        /\ \E i \in OpenIncidentsOf(a) : alert_incidents[i].suppressed_alerts >= 1
        /\ \E i \in OpenAlertsOf(a, "burn_rate") : alert_history[i].updated_at # -1

\* C3 (as claimed): with threshold 3 and no earlier alert, five consecutive
\* non-skipped down probes leave exactly one downtime AlertRecord and an open
\* Incident with failure_events = 5 and suppressed_alerts = 2.  Stated for
\* the runs in which the issue tracker is configured and the alert of the
\* third probe was recorded.
C3_FiveDownProbes ==
    \A a \in Endpoints :
        ( /\ failure_threshold = 3
          /\ github_settings
          /\ Len(monitoring_logs[a]) = 5
          /\ \A k \in 1..5 : /\ ~monitoring_logs[a][k].is_up
                             /\ ~monitoring_logs[a][k].check_skipped
          /\ \E i \in AlertsOf(a, "downtime") :
                 alert_history[i].created_at = monitoring_logs[a][3].timestamp )
        => /\ Cardinality(AlertsOf(a, "downtime")) = 1
           /\ \E i \in OpenIncidentsOf(a) :
                  /\ alert_incidents[i].failure_events = 5
                  /\ alert_incidents[i].suppressed_alerts = 2

\* the run of down results that ends with the k-th non-skipped record
StreakAt(logs, k) == TrailingRun(SubSeq(logs, 1, k), FALSE)

\* C4 (as claimed): a downtime AlertRecord is opened exactly in the cycle
\* whose probe makes the run of non-skipped down results reach the
\* threshold; after up, down, down, down with threshold 3 exactly one is
\* open, created by the third down.
C4_OpensAtThreshold ==
    \A a \in Endpoints :
        LET logs == NonSkipped(a)
        IN  /\ \A i \in AlertsOf(a, "downtime") :
                   \E k \in 1..Len(logs) :
                       /\ logs[k].timestamp = alert_history[i].created_at
                       /\ StreakAt(logs, k) = failure_threshold
            /\ ( /\ failure_threshold = 3
                 /\ Len(monitoring_logs[a]) = 4
                 /\ Len(logs) = 4
                 /\ logs[1].is_up
                 /\ \A k \in 2..4 : ~logs[k].is_up )
               => /\ Cardinality(AlertsOf(a, "downtime")) = 1
                  /\ \A i \in AlertsOf(a, "downtime") :
                         /\ alert_history[i].status = "open"
                         /\ alert_history[i].created_at = logs[4].timestamp

\* C5: a step closes an open downtime AlertRecord only when it leaves the
\* endpoint with at least 3 consecutive non-skipped up results.
C5_OpenUntilThreeUps ==
    [][\A i \in 1..Len(alert_history) :
          ( /\ alert_history[i].alert_type = "downtime"
            /\ alert_history[i].status = "open"
            /\ alert_history'[i].status # "open" )
          => UpStreak(alert_history[i].api_id)' >= 3]_vars

\* a downtime AlertRecord still open after two consecutive up results
C5_Witness ==
    \E a \in Endpoints : OpenAlertsOf(a, "downtime") # {} /\ UpStreak(a) = 2

\* C6 (as claimed): once an endpoint has 3 consecutive non-skipped up
\* results, the recovery action has closed every downtime AlertRecord of it.
C6_RecoveryClosesAll ==
    \A a \in Endpoints : UpStreak(a) >= 3 => OpenAlertsOf(a, "downtime") = {}

\* C7 (as claimed): an Incident of an endpoint is resolved once the endpoint
\* has recorded 3 consecutive non-skipped up results; allowing two further
\* up cycles for "eventually", none is open after 5 consecutive up results.
C7_IncidentResolvedOnRecovery ==
    \A a \in Endpoints : UpStreak(a) >= 5 => OpenIncidentsOf(a) = {}

\* C8: a down probe of a tick whose gate found the network unreachable is
\* stored as skipped with reason network_unavailable and its cycle touches
\* neither Incidents nor downtime AlertRecords; and whenever a cycle adds a
\* failure to an Incident or opens a downtime AlertRecord, the endpoint's
\* run of non-skipped down results is at least the threshold, however many
\* skipped records lie in between.
C8_SkippedNeverCounts ==
    [][\A a \in Endpoints : Cycle(a) =>
          /\ (~network_is_up /\ ~LastLog(a)'.is_up) =>
                 /\ LastLog(a)'.check_skipped
                 /\ LastLog(a)'.skip_reason = "network_unavailable"
                 /\ alert_incidents' = alert_incidents
                 /\ AlertsOf(a, "downtime")' = AlertsOf(a, "downtime")
                 /\ OpenAlertsOf(a, "downtime")' = OpenAlertsOf(a, "downtime")
          /\ ( \/ alert_incidents' # alert_incidents
               \/ AlertsOf(a, "downtime")' # AlertsOf(a, "downtime") ) =>
                 \/ DownStreak(a)' >= failure_threshold
                 \/ UpStreak(a)' >= 3]_vars

\* skipped failures as many as the threshold, a real failure after them, and
\* no Incident
C8_Witness ==
    \E a \in Endpoints :
        /\ Cardinality({k \in 1..Len(monitoring_logs[a]) :
                           monitoring_logs[a][k].check_skipped}) >= failure_threshold
        /\ Len(monitoring_logs[a]) > 0
        /\ ~LastLog(a).is_up
        /\ ~LastLog(a).check_skipped
        /\ IncidentsOf(a) = {}

\* C9 (as claimed): no two downtime AlertRecords of an endpoint are created
\* less than the cooldown apart; a trigger that arrives less than the
\* cooldown after one was created opens none and adds one to the
\* suppressed_alerts of the endpoint's open Incident.
C9_CooldownSuppresses ==
    [][\A a \in Endpoints :
          ( /\ Cycle(a)
            /\ ~LastLog(a)'.is_up
            /\ ~LastLog(a)'.check_skipped
            /\ DownStreak(a)' >= failure_threshold
            /\ \E i \in AlertsOf(a, "downtime") :
                   clock - alert_history[i].created_at < suppression_cooldown_minutes * 60 )
          => /\ AlertsOf(a, "downtime")' = AlertsOf(a, "downtime")
             /\ \E j \in OpenIncidentsOf(a)' :
                    alert_incidents'[j].suppressed_alerts =
                        IF j \in OpenIncidentsOf(a)
                        THEN alert_incidents[j].suppressed_alerts + 1
                        ELSE 1]_vars

\* C10 (as claimed): when a non-skipped down probe brings the run of failures
\* to the threshold or over it, the issue tracker being configured, then at
\* the end of the cycle a downtime AlertRecord of the endpoint is open, or one
\* was created within the cooldown window.
C10_OpenDespiteDelivery ==
    \A a \in Endpoints :
        ( /\ github_settings
          /\ Len(monitoring_logs[a]) > 0
          /\ ~LastLog(a).is_up
          /\ ~LastLog(a).check_skipped
          /\ DownStreak(a) >= failure_threshold )
        => \E i \in AlertsOf(a, "downtime") :
               \/ alert_history[i].status = "open"
               \/ alert_history[i].created_at >=
                      LastLog(a).timestamp - suppression_cooldown_minutes * 60

\* C11 (as claimed): the SLO metrics, the consecutive-failure count, the
\* consecutive-success count and the AI stability check give for an
\* endpoint's history the result they give for the history with its skipped
\* records removed.
C11_SkippedExcludedEverywhere ==
    \A a \in Endpoints :
        LET with == monitoring_logs[a]
            without == NonSkipped(a)
        IN  /\ compute_slo_metrics(with, <<>>, clock) = compute_slo_metrics(without, <<>>, clock)
            /\ count_consecutive_failures(RecentLogs(with, FailureLogLimit))
                   = count_consecutive_failures(RecentLogs(without, FailureLogLimit))
            /\ count_consecutive_successes(RecentLogs(with, RecoveryLogLimit))
                   = count_consecutive_successes(RecentLogs(without, RecoveryLogLimit))
            /\ api_is_stable(with) = api_is_stable(without)

\* the call has returned for a down result
Classified == result # <<>> /\ ~args.is_up

\* C12: classify_root_cause returns network for every down result with
\* check_skipped = true, whatever the status code, the error text and the
\* latency phases.
C12_SkippedIsNetwork ==
    (Classified /\ args.check_skipped) => result[1] = "network"

\* a skipped down result carrying a 5xx status, a timeout text and a slow DNS
\* phase, classified
C12_Witness ==
    /\ Classified
    /\ args.check_skipped
    /\ args.status_code = 500
    /\ "timeout" \in args.error_message
    /\ args.dns_latency_ms >= HighPhaseLatencyMs
    /\ result[1] = "network"

\* C13 (as claimed): for a down result that is not skipped and was taken with
\* the network reachable, 401/403/407 gives auth and 500-599 gives 5xx
\* whatever the error text; otherwise a timeout text gives timeout, else a
\* DNS text dns, else a TLS text tls, else a DNS phase of 2500 ms or more dns,
\* else such a TLS phase tls, and unknown is returned when nothing matches.
C13_Precedence ==
    ( /\ Classified
      /\ ~args.check_skipped
      /\ args.skip_reason = "None"
      /\ args.network_is_up )
    => result[1] =
           IF args.status_code \in {401, 403, 407} THEN "auth"
           ELSE IF args.status_code \in 500..599 THEN "5xx"
           ELSE IF "timeout" \in args.error_message THEN "timeout"
           ELSE IF "dns" \in args.error_message THEN "dns"
           ELSE IF "tls" \in args.error_message THEN "tls"
           ELSE IF args.dns_latency_ms >= HighPhaseLatencyMs THEN "dns"
           ELSE IF args.tls_latency_ms >= HighPhaseLatencyMs THEN "tls"
           ELSE "unknown"

\* C14: every snapshot compute_slo_metrics returns has level critical exactly
\* when there are at least 3 results in the last hour and 6 in the last six
\* hours and the burn rates reach 14.4 and 6.0; warning exactly when it is
\* not critical, the same minimums hold and the burn rates reach 6.0 and
\* 3.0; none otherwise.  (burn = (down / total) / 0.001.)
C14_BurnLevel ==
    \A i \in 1..Len(result) :
        LET r == result[i]
            enough == r.total_1h >= 3 /\ r.total_6h >= 6
            critical == /\ enough
                        /\ r.down_1h * 10000 >= 144 * r.total_1h
                        /\ r.down_6h * 10000 >= 60 * r.total_6h
            warning == /\ ~critical /\ enough
                       /\ r.down_1h * 10000 >= 60 * r.total_1h
                       /\ r.down_6h * 10000 >= 30 * r.total_6h
        IN  /\ (r.burn_rate_alert_level = "critical") <=> critical
            /\ (r.burn_rate_alert_level = "warning") <=> warning
            /\ (r.burn_rate_alert_level = "none") <=> (~critical /\ ~warning)

\* three of three failed in the hour, six of six in the six hours: critical
C14_Witness ==
    /\ result # <<>>
    /\ result[1].total_1h = 3 /\ result[1].down_1h = 3
    /\ result[1].total_6h = 6 /\ result[1].down_6h = 6
    /\ result[1].burn_rate_alert_level = "critical"

C16_BurnAlertFollowsLevel ==
    [][\A a \in Endpoints : Cycle(a) =>
          LET level == compute_slo_metrics(monitoring_logs'[a], <<>>,
                                           clock).burn_rate_alert_level
              was_open == OpenAlertsOf(a, "burn_rate")
          IN  /\ level = "none" =>
                     /\ OpenAlertsOf(a, "burn_rate")' = {}
                     /\ \A i \in was_open :
                            /\ alert_history'[i].status = "closed"
                            /\ alert_history'[i].resolution = "Burn rate normalized"
              /\ (level # "none" /\ was_open # {}) =>
                     /\ AlertsOf(a, "burn_rate")' = AlertsOf(a, "burn_rate")
                     /\ OpenAlertsOf(a, "burn_rate")' = was_open
                     /\ \A i \in was_open :
                            /\ alert_history'[i].severity = level
                            /\ alert_history'[i].updated_at = clock]_vars

\* a burn_rate AlertRecord closed as normalized
C16_Witness ==
    \E a \in Endpoints : \E i \in AlertsOf(a, "burn_rate") :
        /\ alert_history[i].status = "closed"
        /\ alert_history[i].resolution = "Burn rate normalized"
        /\ OpenAlertsOf(a, "burn_rate") = {}

\* C17: a response of fewer than 1024 bytes is never judged unreachable for
\* low throughput, and is reported reachable when its status code is in
\* 200..499 and its latency is within 3000 ms; a latency over the bound or a
\* status code outside 200..499 makes the verdict unreachable at every size.
C17_SmallPayloadNoSpeedTest ==
    (result # <<>> /\ ~args.transport_error) =>
        LET status_ok == args.status_code >= 200 /\ args.status_code <= 499
            latency_ok == args.total_time_ms <= 3000
        IN  /\ args.size_download < 1024 =>
                   /\ result[1].error # "low speed"
                   /\ (status_ok /\ latency_ok) => result[1].network_up
            /\ ~latency_ok => ~result[1].network_up
            /\ ~status_ok => ~result[1].network_up

\* 1023 bytes in 164 ms, under 0.05 Mbit/s, status 200: reachable
C17_Witness ==
    /\ result # <<>>
    /\ ~args.transport_error
    /\ args.size_download = 1023
    /\ args.size_download * 8 < 50 * args.total_time_ms
    /\ args.total_time_ms <= 3000
    /\ args.status_code = 200
    /\ result[1].network_up

\* C18 (as claimed): an endpoint whose owner is not a subscriber is never
\* checked at a sub-minute interval: whatever interval is stored on it, the
\* interval the loop applies is at least 60 seconds, so that two probes of
\* it are at least 60 seconds apart.
C18_FreeNeverSubMinute ==
    \A a \in Endpoints :
        ~monitored_apis[a].subscriber =>
            \A k \in 2..Len(monitoring_logs[a]) :
                monitoring_logs[a][k].timestamp
                    >= monitoring_logs[a][k - 1].timestamp + 60

\* C19: when the loop comes to an endpoint of the tick's list, it probes it
\* exactly if the endpoint was never checked or its last_checked_at plus the
\* interval the loop applies is not after now; an endpoint that is not due
\* gets no probe record and keeps its last_checked_at and last_status; and
\* only active endpoints are probed.
C19_ProbeIffDue ==
    [][/\ \A a \in Endpoints : Cycle(a) => monitored_apis[a].is_active
       /\ (apis # <<>> /\ apis' = Tail(apis)) =>
              LET a == Head(apis).id
                  due == \/ monitored_apis[a].last_checked_at = -1
                         \/ monitored_apis[a].last_checked_at
                                + EffectiveInterval(monitored_apis[a]) <= clock
              IN  /\ Cycle(a) <=> due
                  /\ ~due => /\ monitoring_logs' = monitoring_logs
                             /\ monitored_apis' = monitored_apis]_vars

\* an endpoint probed at 30 and at 90 and passed over at 60 and at 120, its
\* interval being 60 seconds, next to a paused endpoint without a record
C19_Witness ==
    /\ apis = <<>>
    /\ \E a \in Endpoints :
           /\ monitored_apis[a].is_active
           /\ EffectiveInterval(monitored_apis[a]) = 60
           /\ Len(monitoring_logs[a]) = 2
           /\ monitoring_logs[a][2].timestamp = monitoring_logs[a][1].timestamp + 60
           /\ monitored_apis[a].last_checked_at = monitoring_logs[a][2].timestamp
           /\ clock = monitored_apis[a].last_checked_at + sleep_seconds
    /\ \E b \in Endpoints :
           ~monitored_apis[b].is_active /\ monitoring_logs[b] = <<>>

\* C20 (as claimed): the response of the alert-status query to the owner of
\* an endpoint has a non-null downtime_alert, burn_rate_alert, ai_prediction
\* and incident_status whenever an open downtime, burn_rate or ai_prediction
\* AlertRecord or an open Incident of the endpoint exists.
C20_StatusShowsOpenAlerts ==
    [][(result' # result /\ result'[1].status_code = 200) =>
          LET a == result'[1].api_id
          IN  /\ OpenAlertsOf(a, "downtime") # {} => result'[1].downtime_alert # <<>>
              /\ OpenAlertsOf(a, "burn_rate") # {} => result'[1].burn_rate_alert # <<>>
              /\ OpenAlertsOf(a, "ai_prediction") # {} => result'[1].ai_prediction # <<>>
              /\ OpenIncidentsOf(a) # {} => result'[1].incident_status # <<>>]_vars

\* C28 (as claimed): opening an Incident for an endpoint never fails and is
\* never skipped because of another endpoint: after every cycle whose
\* non-skipped down result brings the endpoint's run of failures to the
\* threshold or over it, the endpoint has an open Incident, also when
\* another endpoint reached its threshold in the same clock second.
C28_IncidentPerEndpoint ==
    [][\A a \in Endpoints :
          ( /\ Cycle(a)
            /\ ~LastLog(a)'.is_up
            /\ ~LastLog(a)'.check_skipped
            /\ DownStreak(a)' >= failure_threshold )
          => OpenIncidentsOf(a)' # {}]_vars

\* C25 (as claimed): when the gate's request of a tick completed with an
\* HTTP response, whatever its status code, latency or throughput, no down
\* probe of that tick is stored as skipped and no endpoint gets the status
\* Low Network; only a transport error of the gate does that.
C25_SkippedOnlyOnTransportError ==
    [][\A a \in Endpoints :
          (Cycle(a) /\ network_check.error # "transport") =>
              /\ ~LastLog(a)'.check_skipped
              /\ monitored_apis'[a].last_status # "Low Network"]_vars

\* C27 (as claimed): for every threshold T that AlertManager is configured
\* with (max(2, ALERT_FAILURE_THRESHOLD)), when the endpoint's last T
\* non-skipped results are failures and no downtime AlertRecord is open or
\* within the cooldown, should_create_alert returns true.
C27_EveryThresholdReachable ==
    ( /\ result # <<>>
      /\ "ALERT_FAILURE_THRESHOLD" \in DOMAIN args
      /\ DownStreak(args.api_id) >= failure_threshold
      /\ AlertsOf(args.api_id, "downtime") = {} )
    => result[1]

\* C29: no step removes an Incident or lowers its failure_events or its
\* suppressed_alerts; after every step suppressed_alerts <= failure_events
\* for every Incident; and an Incident whose status is resolved is never
\* changed again.
C29_IncidentCountersMonotone ==
    [][/\ Len(alert_incidents') >= Len(alert_incidents)
       /\ \A i \in 1..Len(alert_incidents) :
              /\ alert_incidents'[i].failure_events >= alert_incidents[i].failure_events
              /\ alert_incidents'[i].suppressed_alerts >= alert_incidents[i].suppressed_alerts
              /\ alert_incidents[i].status = "resolved" =>
                     alert_incidents'[i] = alert_incidents[i]
       /\ \A i \in 1..Len(alert_incidents') :
              alert_incidents'[i].suppressed_alerts <= alert_incidents'[i].failure_events]_vars

\* a resolved Incident of an endpoint and a later, open one of the same
\* endpoint
C29_Witness ==
    \E a \in Endpoints : \E i, j \in IncidentsOf(a) :
        /\ i < j
        /\ alert_incidents[i].status = "resolved"
        /\ alert_incidents[j].status = "open"

\* C23 (as claimed): no step of the monitor loop trains a model.  The loop's
\* AIAlertManager records the time of every training it has run in
\* last_training_time, so in no step of the loop does that record change.
C23_NoInlineTraining ==
    [][last_training_time' = last_training_time]_vars

\* C26 (as claimed): ai_prediction AlertRecords follow the cooldown of the
\* downtime ones: no ai_prediction AlertRecord of an endpoint is created
\* less than the cooldown after another one of that endpoint was created,
\* whether that one is still open or closed.
C26_AiAlertCooldown ==
    \A a \in Endpoints : \A i, j \in AlertsOf(a, "ai_prediction") :
        i < j => alert_history[j].created_at
                     >= alert_history[i].created_at + suppression_cooldown_minutes * 60

\* C22: a probe that stalls until the timeout does not hold up the probes of
\* the other endpoints due in the same tick: whenever the loop probes an
\* endpoint b in the tick in which the probe of another endpoint a has just
\* timed out, b's probe started before a's timeout had elapsed.
C22_StalledProbeDoesNotDelay ==
    [][\A a, b \in Endpoints :
        (/\ a # b
         /\ Cycle(b)
         /\ monitoring_logs[a] # <<>>
         /\ LastLog(a).root_cause_hint = "timeout"
         /\ LastLog(a).timestamp + ProbeTimeout = clock)
        => monitoring_logs'[b][Len(monitoring_logs'[b])].timestamp
              < LastLog(a).timestamp + ProbeTimeout]_vars

\* The pass that takes the state to the next one stores a failed probe of
\* endpoint a that is not skipped and that leaves a's run of failures at the
\* threshold or over it: should_create_alert goes to the Incident.
FailureOverThreshold(a) ==
    /\ Cycle(a)
    /\ ~LastLog(a)'.is_up /\ ~LastLog(a)'.check_skipped
    /\ DownStreak(a)' >= failure_threshold

\* The insert of a new Incident raises in the pass that takes the state to
\* the next one: endpoint a has no open Incident and an Incident created in
\* the same second holds the identifier.
IncidentInsertRaises(a) ==
    /\ FailureOverThreshold(a)
    /\ OpenIncidentsOf(a) = {}
    /\ \E j \in 1..Len(alert_incidents) : alert_incidents[j].incident_id = clock'

\* C24: an exception in the Incident/Alert step of one endpoint does not end
\* the tick.  When the insert of the Incident raises for endpoint a, the
\* rest of the tick's list is still to be walked, a's record of this probe
\* is stored and a's document is updated as after any probe, and nothing of
\* the incidents changed; on a later check of the same run of failures on
\* which the insert does not raise, the endpoint gets its open Incident.
C24_AlertErrorDoesNotAbortTick ==
    [][\A a \in Endpoints :
        /\ IncidentInsertRaises(a) =>
               /\ apis # <<>> /\ Head(apis).id = a /\ apis' = Tail(apis)
               /\ SubSeq(monitoring_logs'[a], 1, Len(monitoring_logs[a]))
                     = monitoring_logs[a]
               /\ LastLog(a)'.timestamp = clock /\ ~LastLog(a)'.is_up
               /\ monitored_apis'[a].last_checked_at = clock
               /\ alert_incidents' = alert_incidents
        /\ (FailureOverThreshold(a) /\ ~IncidentInsertRaises(a))
            => OpenIncidentsOf(a)' # {}]_vars

\* An endpoint whose Incident was opened by the probe after the one that
\* brought its run of failures to the threshold: the first attempt raised,
\* the next check tried again.
C24_Witness ==
    \E a \in Endpoints : \E i \in OpenIncidentsOf(a) :
        /\ DownStreak(a) = failure_threshold + 1
        /\ alert_incidents[i].failure_events = 1
        /\ alert_incidents[i].created_at >= LastLog(a).timestamp
        /\ \E b \in Endpoints \ {a} : \E j \in IncidentsOf(b) :
               alert_incidents[j].created_at
                   = NonSkipped(a)[Len(NonSkipped(a)) - 1].timestamp

\* C30: once delete_monitor has returned for an endpoint, the store holds no
\* probe record of it, and none is written later, also when a tick that had
\* already loaded the endpoint is under way: an endpoint without a document
\* has no probe records.
C30_NoRecordAfterDelete ==
    \A a \in DOMAIN monitoring_logs \ DOMAIN monitored_apis :
        monitoring_logs[a] = <<>>

\* C21: when the monitor loop's check_and_alert and train_model_worker
\* evaluate the same endpoint at the same time, no interleaving of the two
\* leaves the endpoint with two open ai_prediction alerts.
C21_OneOpenAiAlert ==
    \A a \in Endpoints : Cardinality(OpenAiAlerts(alert_history, a)) <= 1

====
